---------------------------- MODULE Spec2Model ----------------------------
(***************************************************************************)
(* A model of the arithmetic interpreter of InterpreterTDD/Interpreter.h:  *)
(* Lexer::Tokenize, Lexer::MarkUnaryOperators, Parser::Parse,              *)
(* Evaluator::Evaluate and InterpreteExperssion.  Each public function is  *)
(* run as a state machine, one step per loop iteration of its class, and   *)
(* is also available as an operator folding the same step over its input.  *)
(***************************************************************************)
EXTENDS Integers, Sequences, FiniteSets, TLC

VARIABLES
    entry,              \* the public function that was called
    pc,                 \* the stage that is running, or "done" / "failed"
    expr,               \* Tokenizer: the expression text (m_current's buffer)
    m_current,          \* Tokenizer::m_current, as an index into expr
    tokenizer_result,   \* Tokenizer::m_result
    tokens,             \* the Tokens argument of the visitor loop in progress
    idx,                \* position of that range-for loop in tokens
    m_nextCanBeUnary,   \* UnaryOperatorMarker::m_nextCanBeUnary
    marker_result,      \* UnaryOperatorMarker::m_result
    m_stack,            \* ShuntingYardParser::m_stack
    m_output,           \* ShuntingYardParser::m_output
    eval_stack,         \* StackEvaluator::m_stack
    error,              \* what() of the exception that left the call, or NoError
    result,             \* the double returned by Evaluate / InterpreteExperssion
    ast                 \* the expression tree the input was written from (SpecTree)

vars == <<entry, pc, expr, m_current, tokenizer_result, tokens, idx,
          m_nextCanBeUnary, marker_result, m_stack, m_output, eval_stack,
          error, result, ast>>

-----------------------------------------------------------------------------
(* Bounds of the model.                                                    *)

MaxTextLen == 4     \* longest text given to Tokenize alone
MaxExprLen == 3     \* longest text given to InterpreteExperssion
MaxMarkLen == 4     \* longest token sequence given to MarkUnaryOperators
MaxParseLen == 4    \* longest token sequence given to Parse
MaxEvalLen == 4     \* longest token sequence given to Evaluate
MaxTreeLen == 8     \* longest well-formed infix sequence given to Parse
MaxComposedLen == 7 \* longest well-formed infix sequence given to the composition
MaxLiveLen == 2     \* longest input of the runs checked for termination

-----------------------------------------------------------------------------
(* double.  A value is sign * (n / d) * 10^e, kept in a canonical form so  *)
(* that equal values are equal records: gcd(n, d) = 1, d has no factor 2   *)
(* or 5 and n no factor 10.  d = 0 stands for the infinities (n = 1) and   *)
(* for NaN (n = 0); zero is signed.  Arithmetic follows IEEE-754 on the    *)
(* special values and is exact on the finite ones (rounding of the         *)
(* mantissa is not represented); a magnitude beyond the double range       *)
(* becomes an infinity or a zero.                                          *)

RECURSIVE Gcd(_, _)
Gcd(a, b) == IF b = 0 THEN a ELSE Gcd(b, a % b)

RECURSIVE Pow10(_)
Pow10(k) == IF k = 0 THEN 1 ELSE 10 * Pow10(k - 1)

RECURSIVE NumDigits(_)
NumDigits(k) == IF k < 10 THEN 1 ELSE 1 + NumDigits(k \div 10)

NaN == [s |-> 1, n |-> 0, d |-> 0, e |-> 0]
Inf(sign) == [s |-> sign, n |-> 1, d |-> 0, e |-> 0]
Zero(sign) == [s |-> sign, n |-> 0, d |-> 1, e |-> 0]

IsNaN(x) == x.d = 0 /\ x.n = 0
IsInf(x) == x.d = 0 /\ x.n = 1
IsZero(x) == x.d = 1 /\ x.n = 0

RECURSIVE Canon(_, _, _, _)
Canon(sign, n, d, e) ==
    IF n = 0 THEN Zero(sign)
    ELSE IF d % 2 = 0 THEN Canon(sign, n * 5, d \div 2, e - 1)
    ELSE IF d % 5 = 0 THEN Canon(sign, n * 2, d \div 5, e - 1)
    ELSE IF Gcd(n, d) > 1 THEN Canon(sign, n \div Gcd(n, d), d \div Gcd(n, d), e)
    ELSE IF n % 10 = 0 THEN Canon(sign, n \div 10, d, e + 1)
    ELSE IF e + NumDigits(n) - NumDigits(d) > 309 THEN Inf(sign)
    ELSE IF e + NumDigits(n) - NumDigits(d) < -324 THEN Zero(sign)
    ELSE [s |-> sign, n |-> n, d |-> d, e |-> e]

Double(i) == IF i < 0 THEN Canon(-1, -i, 1, 0) ELSE Canon(1, i, 1, 0)

DNeg(x) == IF IsNaN(x) THEN x ELSE [x EXCEPT !.s = -x.s]

DAdd(x, y) ==
    IF IsNaN(x) \/ IsNaN(y) THEN NaN
    ELSE IF IsInf(x) /\ IsInf(y) THEN (IF x.s = y.s THEN x ELSE NaN)
    ELSE IF IsInf(x) THEN x
    ELSE IF IsInf(y) THEN y
    ELSE IF IsZero(x) /\ IsZero(y) THEN Zero(IF x.s = -1 /\ y.s = -1 THEN -1 ELSE 1)
    ELSE IF IsZero(x) THEN y
    ELSE IF IsZero(y) THEN x
    ELSE LET m == IF x.e < y.e THEN x.e ELSE y.e
             num == x.s * x.n * Pow10(x.e - m) * y.d + y.s * y.n * Pow10(y.e - m) * x.d
         IN  IF num = 0 THEN Zero(1)
             ELSE IF num < 0 THEN Canon(-1, -num, x.d * y.d, m)
             ELSE Canon(1, num, x.d * y.d, m)

DSub(x, y) == DAdd(x, DNeg(y))

DMul(x, y) ==
    IF IsNaN(x) \/ IsNaN(y) THEN NaN
    ELSE IF (IsInf(x) /\ IsZero(y)) \/ (IsZero(x) /\ IsInf(y)) THEN NaN
    ELSE IF IsInf(x) \/ IsInf(y) THEN Inf(x.s * y.s)
    ELSE Canon(x.s * y.s, x.n * y.n, x.d * y.d, x.e + y.e)

DDiv(x, y) ==
    IF IsNaN(x) \/ IsNaN(y) THEN NaN
    ELSE IF (IsZero(x) /\ IsZero(y)) \/ (IsInf(x) /\ IsInf(y)) THEN NaN
    ELSE IF IsInf(x) \/ IsZero(y) THEN Inf(x.s * y.s)
    ELSE IF IsInf(y) THEN Zero(x.s * y.s)
    ELSE Canon(x.s * y.s, x.n * y.d, x.d * y.n, x.e - y.e)

-----------------------------------------------------------------------------
(* Operator and Token.                                                     *)

Operators == {"Plus", "Minus", "Mul", "Div", "LParen", "RParen", "UPlus", "UMinus"}

NumberToken(val) == [kind |-> "Number", m_number |-> val]
OperatorToken(val) == [kind |-> "Operator", m_operator |-> val]

IsNumberToken(t) == t.kind = "Number"
IsOperatorToken(t) == t.kind = "Operator"

\* operator==(Token, Token): same variant and an equal payload; the payload
\* of a NumberToken is compared as doubles are (NaN differs from itself, the
\* two zeros are equal).
TokenEquals(left, right) ==
    IF IsOperatorToken(left)
    THEN IsOperatorToken(right) /\ right.m_operator = left.m_operator
    ELSE IsNumberToken(right) /\ ~IsNaN(left.m_number)
         /\ (right.m_number = left.m_number
             \/ (IsZero(left.m_number) /\ IsZero(right.m_number)))

NoError == "none"


-----------------------------------------------------------------------------
(* Lexer::Detail::Tokenizer.  The text is a sequence of characters; the    *)
(* terminating L'\0' is the character read past its end.                   *)

NUL == "NUL"
DigitChars == <<"0", "1", "2", "3", "4", "5", "6", "7", "8", "9">>
OperatorChars == {"+", "-", "*", "/", "(", ")"}

CharAt(text, p) == IF p <= Len(text) THEN text[p] ELSE NUL

IsDigitChar(c) == \E i \in 1..Len(DigitChars) : DigitChars[i] = c
DigitValue(c) == (CHOOSE i \in 1..Len(DigitChars) : DigitChars[i] = c) - 1

EndOfExperssion(text, p) == CharAt(text, p) = NUL
IsNumber(text, p) == IsDigitChar(CharAt(text, p))
IsOperator(text, p) == CharAt(text, p) \in OperatorChars

\* The first position at or after p that holds no digit.
RECURSIVE DigitsEnd(_, _)
DigitsEnd(text, p) ==
    IF IsDigitChar(CharAt(text, p)) THEN DigitsEnd(text, p + 1) ELSE p

\* The decimal number written by the digits at positions from .. to - 1.
RECURSIVE DigitsNumber(_, _, _)
DigitsNumber(text, from, to) ==
    IF from >= to THEN 0
    ELSE 10 * DigitsNumber(text, from, to - 1) + DigitValue(text[to - 1])

\* wcstod(m_current, &end) called at a digit, "C" locale: the longest prefix
\* digits [. digits*] [(e|E) [+|-] digits] is converted and end is set past
\* it; an "e" that no digits follow (after an optional sign) is not part of
\* the number.
Wcstod(text, p) ==
    LET intEnd == DigitsEnd(text, p)
        fracEnd == IF CharAt(text, intEnd) = "." THEN DigitsEnd(text, intEnd + 1)
                   ELSE intEnd
        fracLen == IF fracEnd > intEnd THEN fracEnd - intEnd - 1 ELSE 0
        hasE == CharAt(text, fracEnd) \in {"e", "E"}
        signed == hasE /\ CharAt(text, fracEnd + 1) \in {"+", "-"}
        expFrom == IF signed THEN fracEnd + 2 ELSE fracEnd + 1
        hasExp == hasE /\ IsDigitChar(CharAt(text, expFrom))
        expEnd == IF hasExp THEN DigitsEnd(text, expFrom) ELSE fracEnd
        expAbs == IF hasExp THEN DigitsNumber(text, expFrom, expEnd) ELSE 0
        exp == IF signed /\ CharAt(text, fracEnd + 1) = "-" THEN -expAbs ELSE expAbs
        mant == DigitsNumber(text, p, intEnd) * Pow10(fracLen)
                + DigitsNumber(text, intEnd + 1, fracEnd)
    IN  [value |-> Canon(1, mant, 1, exp - fracLen), end |-> expEnd]

\* ScanNumber: append the converted number, continue at wcstod's end.
ScanNumber(text, t) ==
    [m_current |-> Wcstod(text, t.m_current).end,
     m_result |-> Append(t.m_result, NumberToken(Wcstod(text, t.m_current).value))]

\* Mutant: two cases of the switch are exchanged.
OperatorOfCharExchanged(c) ==
    CASE c = "+" -> <<OperatorToken("Plus")>>
      [] c = "-" -> <<OperatorToken("Minus")>>
      [] c = "*" -> <<OperatorToken("Div")>>
      [] c = "/" -> <<OperatorToken("Mul")>>
      [] c = "(" -> <<OperatorToken("LParen")>>
      [] c = ")" -> <<OperatorToken("RParen")>>
      [] OTHER -> <<>>

\* The switch of ScanOperator: the tokens it appends for a character.
OperatorOfChar(c) ==
    CASE c = "+" -> <<OperatorToken("Plus")>>
      [] c = "-" -> <<OperatorToken("Minus")>>
      [] c = "*" -> <<OperatorToken("Mul")>>
      [] c = "/" -> <<OperatorToken("Div")>>
      [] c = "(" -> <<OperatorToken("LParen")>>
      [] c = ")" -> <<OperatorToken("RParen")>>
      [] OTHER -> <<>>

\* Mutant: the scan position stays where it is.
MoveNextStaying(t) == t

MoveNext(t) == [t EXCEPT !.m_current = t.m_current + 1]

ScanOperator(text, t) ==
    MoveNext([t EXCEPT !.m_result = t.m_result \o OperatorOfChar(CharAt(text, t.m_current))])

\* One iteration of the while loop of Tokenizer::Tokenize.
TokenizerStep(text, t) ==
    IF IsNumber(text, t.m_current) THEN ScanNumber(text, t)
    ELSE IF IsOperator(text, t.m_current) THEN ScanOperator(text, t)
    ELSE MoveNext(t)

NewTokenizer == [m_current |-> 1, m_result |-> <<>>]

RECURSIVE TokenizerRun(_, _)
TokenizerRun(text, t) ==
    IF EndOfExperssion(text, t.m_current) THEN t
    ELSE TokenizerRun(text, TokenizerStep(text, t))

\* Lexer::Tokenize.
Tokenize(text) == TokenizerRun(text, NewTokenizer).m_result

-----------------------------------------------------------------------------
(* Lexer::Detail::UnaryOperatorMarker.                                     *)

\* Mutant: no sign is converted.
TryConvertToUnaryNever(op) == op

TryConvertToUnary(op) ==
    CASE op = "Plus" -> "UPlus"
      [] op = "Minus" -> "UMinus"
      [] OTHER -> op

NewMarker == [m_nextCanBeUnary |-> TRUE, m_result |-> <<>>]

\* Mutant: a number leaves the flag as it was.
MarkerVisitNumberKeepingFlag(m, number) ==
    [m_nextCanBeUnary |-> m.m_nextCanBeUnary,
     m_result |-> Append(m.m_result, NumberToken(number))]

MarkerVisitNumber(m, number) ==
    [m_nextCanBeUnary |-> FALSE,
     m_result |-> Append(m.m_result, NumberToken(number))]

\* Mutant: the flag is computed from the token that was emitted, a sign
\* counting as an operand's end once it was left binary.
MarkerVisitOperatorFlagFromSign(m, current) ==
    [m_nextCanBeUnary |-> (current \notin {"RParen", "Plus", "Minus"}),
     m_result |-> Append(m.m_result,
                         OperatorToken(IF m.m_nextCanBeUnary
                                       THEN TryConvertToUnary(current)
                                       ELSE current))]

MarkerVisitOperator(m, current) ==
    [m_nextCanBeUnary |-> (current # "RParen"),
     m_result |-> Append(m.m_result,
                         OperatorToken(IF m.m_nextCanBeUnary
                                       THEN TryConvertToUnary(current)
                                       ELSE current))]

\* Token::Accept on the marker.
MarkerAccept(m, token) ==
    IF IsNumberToken(token) THEN MarkerVisitNumber(m, token.m_number)
    ELSE MarkerVisitOperator(m, token.m_operator)

RECURSIVE MarkerRun(_, _, _)
MarkerRun(m, toks, i) ==
    IF i > Len(toks) THEN m ELSE MarkerRun(MarkerAccept(m, toks[i]), toks, i + 1)

\* Lexer::MarkUnaryOperators.
MarkUnaryOperators(toks) == MarkerRun(NewMarker, toks, 1).m_result

-----------------------------------------------------------------------------
(* Parser::PrecedenceOf and Parser::Detail::ShuntingYardParser.            *)

\* Mutant: unary minus binds like a multiplication.
PrecedenceOfUMinusAsMul(token) ==
    IF TokenEquals(token, OperatorToken("UMinus"))
       \/ TokenEquals(token, OperatorToken("Mul"))
       \/ TokenEquals(token, OperatorToken("Div")) THEN 1
    ELSE 0

PrecedenceOf(token) ==
    IF TokenEquals(token, OperatorToken("UMinus")) THEN 2
    ELSE IF TokenEquals(token, OperatorToken("Mul"))
            \/ TokenEquals(token, OperatorToken("Div")) THEN 1
    ELSE 0

ClosingParenNotFound == "Closing paren not found."
OpeningParenNotFound == "Opening paren not found."

NewParser == [m_stack |-> <<>>, m_output |-> <<>>, error |-> NoError]

Back(stack) == stack[Len(stack)]
PopBack(stack) == SubSeq(stack, 1, Len(stack) - 1)

LeftParenOnTop(p) == TokenEquals(Back(p.m_stack), OperatorToken("LParen"))

\* Mutant: equal precedence stops the pops (right-to-left grouping).
OperatorWithLessOrEqualPrecedenceOnTop(p, op) ==
    PrecedenceOf(Back(p.m_stack)) <= PrecedenceOf(OperatorToken(op))

OperatorWithLessPrecedenceOnTop(p, op) ==
    PrecedenceOf(Back(p.m_stack)) < PrecedenceOf(OperatorToken(op))

\* The three predicates PopToOutputUntil is called with, named by the case
\* that passes them; StackHasNoOperators throws on a left parenthesis and
\* otherwise answers false.
UntilLeftParen == <<"RParen">>
UntilLessPrecedence(op) == <<"binary", op>>
UntilStackHasNoOperators == <<"end">>

\* Mutant: StackHasNoOperators looks for the wrong parenthesis.
WhenToEndThrowsOnRParen(p, whenToEnd) ==
    whenToEnd = UntilStackHasNoOperators
    /\ TokenEquals(Back(p.m_stack), OperatorToken("RParen"))

WhenToEndThrows(p, whenToEnd) ==
    whenToEnd = UntilStackHasNoOperators /\ LeftParenOnTop(p)

\* Mutant: the pops for a binary operator do not stop at a left parenthesis.
WhenToEndIgnoringParen(p, whenToEnd) ==
    CASE whenToEnd = UntilLeftParen -> LeftParenOnTop(p)
      [] whenToEnd = UntilStackHasNoOperators -> FALSE
      [] OTHER -> OperatorWithLessPrecedenceOnTop(p, whenToEnd[2])

WhenToEnd(p, whenToEnd) ==
    CASE whenToEnd = UntilLeftParen -> LeftParenOnTop(p)
      [] whenToEnd = UntilStackHasNoOperators -> FALSE
      [] OTHER -> LeftParenOnTop(p) \/ OperatorWithLessPrecedenceOnTop(p, whenToEnd[2])

\* Mutant: at most one operator is popped.
PopToOutputUntilOnce(p, whenToEnd) ==
    IF p.m_stack = <<>> THEN p
    ELSE IF WhenToEndThrows(p, whenToEnd) THEN [p EXCEPT !.error = ClosingParenNotFound]
    ELSE IF WhenToEnd(p, whenToEnd) THEN p
    ELSE [p EXCEPT !.m_output = Append(p.m_output, Back(p.m_stack)),
                   !.m_stack = PopBack(p.m_stack)]

RECURSIVE PopToOutputUntil(_, _)
PopToOutputUntil(p, whenToEnd) ==
    IF p.m_stack = <<>> THEN p
    ELSE IF WhenToEndThrows(p, whenToEnd) THEN [p EXCEPT !.error = ClosingParenNotFound]
    ELSE IF WhenToEnd(p, whenToEnd) THEN p
    ELSE PopToOutputUntil([p EXCEPT !.m_output = Append(p.m_output, Back(p.m_stack)),
                                    !.m_stack = PopBack(p.m_stack)],
                          whenToEnd)

PushCurrentToStack(p, op) == [p EXCEPT !.m_stack = Append(p.m_stack, OperatorToken(op))]

PopLeftParen(p) ==
    IF p.m_stack = <<>> \/ ~TokenEquals(Back(p.m_stack), OperatorToken("LParen"))
    THEN [p EXCEPT !.error = OpeningParenNotFound]
    ELSE [p EXCEPT !.m_stack = PopBack(p.m_stack)]

\* Mutant: unary plus is pushed like unary minus.
ParserVisitOperatorPushingUPlus(p, op) ==
    CASE op = "UPlus" -> PushCurrentToStack(p, op)
      [] op = "UMinus" -> PushCurrentToStack(p, op)
      [] op = "LParen" -> PushCurrentToStack(p, op)
      [] op = "RParen" -> PopLeftParen(PopToOutputUntil(p, UntilLeftParen))
      [] OTHER -> PushCurrentToStack(PopToOutputUntil(p, UntilLessPrecedence(op)), op)

ParserVisitOperator(p, op) ==
    CASE op = "UPlus" -> p
      [] op = "UMinus" -> PushCurrentToStack(p, op)
      [] op = "LParen" -> PushCurrentToStack(p, op)
      [] op = "RParen" -> PopLeftParen(PopToOutputUntil(p, UntilLeftParen))
      [] OTHER -> PushCurrentToStack(PopToOutputUntil(p, UntilLessPrecedence(op)), op)

\* Mutant: a number is dropped.
ParserVisitNumberDropping(p, number) == p

\* Mutant: a number goes to the front of the output.
ParserVisitNumberInFront(p, number) ==
    [p EXCEPT !.m_output = <<NumberToken(number)>> \o p.m_output]

ParserVisitNumber(p, number) ==
    [p EXCEPT !.m_output = Append(p.m_output, NumberToken(number))]

\* Token::Accept on the parser.
ParserAccept(p, token) ==
    IF IsNumberToken(token) THEN ParserVisitNumber(p, token.m_number)
    ELSE ParserVisitOperator(p, token.m_operator)

\* The statement of ShuntingYardParser::Parse that follows the loop.
ParserFinish(p) == PopToOutputUntil(p, UntilStackHasNoOperators)

RECURSIVE ParserRun(_, _, _)
ParserRun(p, toks, i) ==
    IF p.error # NoError THEN p
    ELSE IF i > Len(toks) THEN ParserFinish(p)
    ELSE ParserRun(ParserAccept(p, toks[i]), toks, i + 1)

\* Parser::Parse: the exception that leaves it, or the tokens it returns.
Parse(toks) ==
    LET p == ParserRun(NewParser, toks, 1)
    IN  [error |-> p.error, value |-> IF p.error = NoError THEN p.m_output ELSE <<>>]

-----------------------------------------------------------------------------
(* Evaluator::Detail::StackEvaluator.                                      *)

NotEnoughOperands == "Not enough operands in stack."
OutOfRange == "out_of_range"    \* thrown by std::map::at

\* FunctionsMap: the arity (Size) of each function, and the functions.
FunctionsMap == [Plus |-> 2, Minus |-> 2, Mul |-> 2, Div |-> 2, UMinus |-> 1]

\* Mutant: the operands are taken in the order they are popped.
FunctionOperandsReversed(op, args) ==
    CASE op = "Plus" -> DAdd(args[2], args[1])
      [] op = "Minus" -> DSub(args[2], args[1])
      [] op = "Mul" -> DMul(args[2], args[1])
      [] op = "Div" -> DDiv(args[2], args[1])
      [] op = "UMinus" -> DNeg(args[1])

Function(op, args) ==
    CASE op = "Plus" -> DAdd(args[1], args[2])
      [] op = "Minus" -> DSub(args[1], args[2])
      [] op = "Mul" -> DMul(args[1], args[2])
      [] op = "Div" -> DDiv(args[1], args[2])
      [] op = "UMinus" -> DNeg(args[1])

NewEvaluator == [m_stack |-> <<>>, error |-> NoError]

\* Mutant: the size check is off by one.
EvalSizeOffByOne(ev, op, Size) ==
    IF Len(ev.m_stack) <= Size THEN [ev EXCEPT !.error = NotEnoughOperands]
    ELSE LET n == Len(ev.m_stack)
             operands == SubSeq(ev.m_stack, n - Size + 1, n)
         IN  [ev EXCEPT !.m_stack = Append(SubSeq(ev.m_stack, 1, n - Size),
                                           Function(op, operands))]

\* EvalFunctionImpl<T, Size>::Eval, for the function stored under op.
Eval(ev, op, Size) ==
    IF Len(ev.m_stack) < Size THEN [ev EXCEPT !.error = NotEnoughOperands]
    ELSE LET n == Len(ev.m_stack)
             operands == SubSeq(ev.m_stack, n - Size + 1, n)
         IN  [ev EXCEPT !.m_stack = Append(SubSeq(ev.m_stack, 1, n - Size),
                                           Function(op, operands))]

\* Mutant: an operator without a function is skipped.
EvaluatorVisitOperatorSkipping(ev, op) ==
    IF op \notin DOMAIN FunctionsMap THEN ev
    ELSE Eval(ev, op, FunctionsMap[op])

EvaluatorVisitOperator(ev, op) ==
    IF op \notin DOMAIN FunctionsMap THEN [ev EXCEPT !.error = OutOfRange]
    ELSE Eval(ev, op, FunctionsMap[op])

EvaluatorVisitNumber(ev, number) == [ev EXCEPT !.m_stack = Append(ev.m_stack, number)]

\* Token::Accept on the evaluator.
EvaluatorAccept(ev, token) ==
    IF IsNumberToken(token) THEN EvaluatorVisitNumber(ev, token.m_number)
    ELSE EvaluatorVisitOperator(ev, token.m_operator)

\* Mutant: an empty stack gives no number.
EvaluatorResultOfEmptyIsNaN(ev) == IF ev.m_stack = <<>> THEN NaN ELSE Back(ev.m_stack)

\* Mutant: the result is the bottom of the stack.
EvaluatorResultFront(ev) == IF ev.m_stack = <<>> THEN Double(0) ELSE ev.m_stack[1]

EvaluatorResult(ev) == IF ev.m_stack = <<>> THEN Double(0) ELSE Back(ev.m_stack)

RECURSIVE EvaluatorRun(_, _, _)
EvaluatorRun(ev, toks, i) ==
    IF ev.error # NoError \/ i > Len(toks) THEN ev
    ELSE EvaluatorRun(EvaluatorAccept(ev, toks[i]), toks, i + 1)

\* The value of result while no double has been returned (no double has s = 0).
NoResult == [s |-> 0, n |-> 0, d |-> 0, e |-> 0]

\* Evaluator::Evaluate: the exception that leaves it, or the double it returns.
Evaluate(toks) ==
    LET ev == EvaluatorRun(NewEvaluator, toks, 1)
    IN  [error |-> ev.error,
         value |-> IF ev.error = NoError THEN EvaluatorResult(ev) ELSE NoResult]

\* InterpreteExperssion: Evaluate(Parse(Tokenize(expression))); an exception
\* of Parse leaves the call before Evaluate runs.
InterpreteExperssion(text) ==
    LET parsed == Parse(Tokenize(text))
    IN  IF parsed.error # NoError THEN [error |-> parsed.error, value |-> NoResult]
        ELSE Evaluate(parsed.value)

-----------------------------------------------------------------------------
(* Inputs.                                                                 *)

SeqsUpTo(S, n) == UNION {[1..k -> S] : k \in 0..n}

TextChars == {"1", "2", ".", "e", "+", "-", "*", "/", "(", ")", " "}

OperatorTokens == {OperatorToken(op) : op \in Operators}
MarkTokens == OperatorTokens \cup {NumberToken(Double(1))}
ParseTokens == OperatorTokens \cup {NumberToken(Double(1))}
EvalTokens == OperatorTokens \cup {NumberToken(Double(0)), NumberToken(Double(2))}

\* Well-formed unary-marked infix sequences, as the trees they are written
\* from: <<"Number", v>>, <<"UMinus", t>>, <<"UPlus", t>>, <<"Paren", t>>,
\* <<"Binary", op, left, right>>.  Level(n, below) holds the shapes of the
\* trees whose infix form has n tokens (every number 0), by the binding
\* strength of their outermost construct: U (a number, a parenthesis or a
\* sign in front of a U), M (U or a Mul/Div of an M and a U), A (M or a
\* Plus/Minus of an A and an M).
Level(n, below) ==
    LET P == (IF n = 1 THEN {<<"Number", Double(0)>>} ELSE {})
             \cup (IF n >= 3 THEN {<<"Paren", t>> : t \in below[n - 2].A} ELSE {})
        U == P \cup (IF n >= 2
                     THEN {<<u, t>> : u \in {"UMinus", "UPlus"}, t \in below[n - 1].U}
                     ELSE {})
        M == U \cup UNION {{<<"Binary", op, l, r>> :
                                op \in {"Mul", "Div"}, l \in below[i].M,
                                r \in below[n - 1 - i].U} : i \in 1..(n - 2)}
        A == M \cup UNION {{<<"Binary", op, l, r>> :
                                op \in {"Plus", "Minus"}, l \in below[i].A,
                                r \in below[n - 1 - i].M} : i \in 1..(n - 2)}
    IN  [U |-> U, M |-> M, A |-> A]

RECURSIVE Levels(_)
Levels(below) ==
    IF Len(below) >= MaxTreeLen THEN below
    ELSE Levels(Append(below, Level(Len(below) + 1, below)))

TreeShapes == LET all == Levels(<<>>) IN UNION {all[n].A : n \in 1..Len(all)}

RECURSIVE NumberCount(_)
NumberCount(t) ==
    CASE t[1] = "Number" -> 1
      [] t[1] = "Binary" -> NumberCount(t[3]) + NumberCount(t[4])
      [] OTHER -> NumberCount(t[2])

\* The tree of shape t whose numbers are k, k + 1, ... from left to right.
RECURSIVE Numbered(_, _)
Numbered(t, k) ==
    CASE t[1] = "Number" -> <<"Number", Double(k)>>
      [] t[1] = "Binary" -> <<"Binary", t[2], Numbered(t[3], k),
                              Numbered(t[4], k + NumberCount(t[3]))>>
      [] OTHER -> <<t[1], Numbered(t[2], k)>>

NoTree == <<>>

\* The numbers of a token sequence replaced by 1, 2, 3, ... from left to
\* right, so that no two Number tokens of an input are equal.
NumberedTokens(toks) ==
    [i \in 1..Len(toks) |->
        IF IsNumberToken(toks[i])
        THEN NumberToken(Double(Cardinality({j \in 1..i : IsNumberToken(toks[j])})))
        ELSE toks[i]]

\* A token sequence with its unary signs written as the bare Plus / Minus
\* the tokenizer produces.
BareSign(t) ==
    IF IsOperatorToken(t) /\ t.m_operator = "UPlus" THEN OperatorToken("Plus")
    ELSE IF IsOperatorToken(t) /\ t.m_operator = "UMinus" THEN OperatorToken("Minus")
    ELSE t
BareSigns(toks) == [i \in 1..Len(toks) |-> BareSign(toks[i])]

\* The infix token sequence a tree is written as.
RECURSIVE Infix(_)
Infix(t) ==
    CASE t[1] = "Number" -> <<NumberToken(t[2])>>
      [] t[1] = "Paren" -> <<OperatorToken("LParen")>> \o Infix(t[2])
                           \o <<OperatorToken("RParen")>>
      [] t[1] = "Binary" -> Infix(t[3]) \o <<OperatorToken(t[2])>> \o Infix(t[4])
      [] OTHER -> <<OperatorToken(t[1])>> \o Infix(t[2])

\* The postfix token sequence that denotes a tree: operands before their
\* operator, parentheses and UPlus (the identity) leaving no token.
RECURSIVE Postfix(_)
Postfix(t) ==
    CASE t[1] = "Number" -> <<NumberToken(t[2])>>
      [] t[1] = "Paren" -> Postfix(t[2])
      [] t[1] = "UPlus" -> Postfix(t[2])
      [] t[1] = "UMinus" -> Postfix(t[2]) \o <<OperatorToken("UMinus")>>
      [] t[1] = "Binary" -> Postfix(t[3]) \o Postfix(t[4]) \o <<OperatorToken(t[2])>>

-----------------------------------------------------------------------------
(* The state machine.                                                      *)

\* The call Evaluate(Parse(MarkUnaryOperators(tokens))), as an entry.
Composition == "Evaluate(Parse(MarkUnaryOperators(tokens)))"

Start(fn, first, text, toks, tree) ==
    /\ entry = fn
    /\ pc = first
    /\ expr = text
    /\ m_current = NewTokenizer.m_current
    /\ tokenizer_result = NewTokenizer.m_result
    /\ tokens = toks
    /\ idx = 1
    /\ m_nextCanBeUnary = NewMarker.m_nextCanBeUnary
    /\ marker_result = NewMarker.m_result
    /\ m_stack = NewParser.m_stack
    /\ m_output = NewParser.m_output
    /\ eval_stack = NewEvaluator.m_stack
    /\ error = NoError
    /\ result = NoResult
    /\ ast = tree

markerVars == <<m_nextCanBeUnary, marker_result>>
tokenizerVars == <<m_current, tokenizer_result>>
parserVars == <<m_stack, m_output>>
loopVars == <<tokens, idx>>

ThisTokenizer == [m_current |-> m_current, m_result |-> tokenizer_result]
ThisMarker == [m_nextCanBeUnary |-> m_nextCanBeUnary, m_result |-> marker_result]
ThisParser == [m_stack |-> m_stack, m_output |-> m_output, error |-> error]
ThisEvaluator == [m_stack |-> eval_stack, error |-> error]

\* ---- Tokenizer::Tokenize, one loop iteration per step

TokenizerBecomes(t) ==
    /\ m_current' = t.m_current
    /\ tokenizer_result' = t.m_result
    /\ UNCHANGED <<entry, pc, expr, loopVars, markerVars, parserVars, eval_stack,
                   error, result, ast>>

Tokenizer_ScanNumber ==
    /\ pc = "Tokenize"
    /\ ~EndOfExperssion(expr, m_current)
    /\ IsNumber(expr, m_current)
    /\ TokenizerBecomes(ScanNumber(expr, ThisTokenizer))

Tokenizer_ScanOperator ==
    /\ pc = "Tokenize"
    /\ ~EndOfExperssion(expr, m_current)
    /\ ~IsNumber(expr, m_current)
    /\ IsOperator(expr, m_current)
    /\ TokenizerBecomes(ScanOperator(expr, ThisTokenizer))

Tokenizer_MoveNext ==
    /\ pc = "Tokenize"
    /\ ~EndOfExperssion(expr, m_current)
    /\ ~IsNumber(expr, m_current)
    /\ ~IsOperator(expr, m_current)
    /\ TokenizerBecomes(MoveNext(ThisTokenizer))

\* Tokenize returns tokenizer.Result(); InterpreteExperssion passes it to Parse.
Tokenize_Return ==
    /\ pc = "Tokenize"
    /\ EndOfExperssion(expr, m_current)
    /\ IF entry = "InterpreteExperssion"
       THEN pc' = "Parse" /\ tokens' = tokenizer_result /\ idx' = 1
       ELSE pc' = "done" /\ UNCHANGED loopVars
    /\ UNCHANGED <<entry, expr, tokenizerVars, markerVars, parserVars, eval_stack,
                   error, result, ast>>

\* ---- UnaryOperatorMarker::Mark, one token per step

MarkerBecomes(m) ==
    /\ m_nextCanBeUnary' = m.m_nextCanBeUnary
    /\ marker_result' = m.m_result
    /\ idx' = idx + 1
    /\ UNCHANGED <<entry, pc, expr, tokenizerVars, tokens, parserVars, eval_stack,
                   error, result, ast>>

Marker_VisitNumber ==
    /\ pc = "MarkUnaryOperators"
    /\ idx <= Len(tokens)
    /\ IsNumberToken(tokens[idx])
    /\ MarkerBecomes(MarkerVisitNumber(ThisMarker, tokens[idx].m_number))

Marker_VisitOperator ==
    /\ pc = "MarkUnaryOperators"
    /\ idx <= Len(tokens)
    /\ IsOperatorToken(tokens[idx])
    /\ MarkerBecomes(MarkerVisitOperator(ThisMarker, tokens[idx].m_operator))

\* MarkUnaryOperators returns marker.Result(); the composition passes it to
\* Parse.
MarkUnaryOperators_Return ==
    /\ pc = "MarkUnaryOperators"
    /\ idx > Len(tokens)
    /\ IF entry = Composition
       THEN pc' = "Parse" /\ tokens' = marker_result /\ idx' = 1
       ELSE pc' = "done" /\ UNCHANGED loopVars
    /\ UNCHANGED <<entry, expr, tokenizerVars, markerVars, parserVars,
                   eval_stack, error, result, ast>>

\* ---- ShuntingYardParser::Parse, one token per step, then the final pops

ParserBecomes(p) ==
    /\ m_stack' = p.m_stack
    /\ m_output' = p.m_output
    /\ error' = p.error
    /\ idx' = idx + 1
    /\ pc' = IF p.error # NoError THEN "failed" ELSE pc
    /\ UNCHANGED <<entry, expr, tokenizerVars, tokens, markerVars, eval_stack,
                   result, ast>>

Parser_VisitNumber ==
    /\ pc = "Parse"
    /\ idx <= Len(tokens)
    /\ IsNumberToken(tokens[idx])
    /\ ParserBecomes(ParserVisitNumber(ThisParser, tokens[idx].m_number))

Parser_VisitOperator ==
    /\ pc = "Parse"
    /\ idx <= Len(tokens)
    /\ IsOperatorToken(tokens[idx])
    /\ ParserBecomes(ParserVisitOperator(ThisParser, tokens[idx].m_operator))

\* The final PopToOutputUntil, and Parse returning parser.Result();
\* InterpreteExperssion and the composition pass it to Evaluate.
Parse_Return ==
    /\ pc = "Parse"
    /\ idx > Len(tokens)
    /\ LET p == ParserFinish(ThisParser)
       IN  /\ m_stack' = p.m_stack
           /\ m_output' = p.m_output
           /\ error' = p.error
           /\ IF p.error # NoError
              THEN pc' = "failed" /\ UNCHANGED loopVars
              ELSE IF entry \in {"InterpreteExperssion", Composition}
              THEN pc' = "Evaluate" /\ tokens' = p.m_output /\ idx' = 1
              ELSE pc' = "done" /\ UNCHANGED loopVars
    /\ UNCHANGED <<entry, expr, tokenizerVars, markerVars, eval_stack, result, ast>>

\* ---- StackEvaluator::Evaluate, one token per step

EvaluatorBecomes(ev) ==
    /\ eval_stack' = ev.m_stack
    /\ error' = ev.error
    /\ idx' = idx + 1
    /\ pc' = IF ev.error # NoError THEN "failed" ELSE pc
    /\ UNCHANGED <<entry, expr, tokenizerVars, tokens, markerVars, parserVars,
                   result, ast>>

Evaluator_VisitNumber ==
    /\ pc = "Evaluate"
    /\ idx <= Len(tokens)
    /\ IsNumberToken(tokens[idx])
    /\ EvaluatorBecomes(EvaluatorVisitNumber(ThisEvaluator, tokens[idx].m_number))

Evaluator_VisitOperator ==
    /\ pc = "Evaluate"
    /\ idx <= Len(tokens)
    /\ IsOperatorToken(tokens[idx])
    /\ EvaluatorBecomes(EvaluatorVisitOperator(ThisEvaluator, tokens[idx].m_operator))

Evaluate_Return ==
    /\ pc = "Evaluate"
    /\ idx > Len(tokens)
    /\ result' = EvaluatorResult(ThisEvaluator)
    /\ pc' = "done"
    /\ UNCHANGED <<entry, expr, tokenizerVars, loopVars, markerVars, parserVars,
                   eval_stack, error, ast>>

-----------------------------------------------------------------------------
(* Specifications: one per public function.                                *)

\* InterpreteExperssion(expr)
Init ==
    \E text \in SeqsUpTo(TextChars, MaxExprLen) :
        Start("InterpreteExperssion", "Tokenize", text, <<>>, NoTree)

Next ==
    \/ Tokenizer_ScanNumber
    \/ Tokenizer_ScanOperator
    \/ Tokenizer_MoveNext
    \/ Tokenize_Return
    \/ Parser_VisitNumber
    \/ Parser_VisitOperator
    \/ Parse_Return
    \/ Evaluator_VisitNumber
    \/ Evaluator_VisitOperator
    \/ Evaluate_Return

Spec == Init /\ [][Next]_vars

\* Lexer::Tokenize(expr)
InitTokenize ==
    \E text \in SeqsUpTo(TextChars, MaxTextLen) :
        Start("Tokenize", "Tokenize", text, <<>>, NoTree)

NextTokenize ==
    \/ Tokenizer_ScanNumber
    \/ Tokenizer_ScanOperator
    \/ Tokenizer_MoveNext
    \/ Tokenize_Return

SpecTokenize == InitTokenize /\ [][NextTokenize]_vars

\* Lexer::MarkUnaryOperators(tokens)
InitMark ==
    \E toks \in SeqsUpTo(MarkTokens, MaxMarkLen) :
        Start("MarkUnaryOperators", "MarkUnaryOperators", <<>>, toks, NoTree)

NextMark ==
    \/ Marker_VisitNumber
    \/ Marker_VisitOperator
    \/ MarkUnaryOperators_Return

SpecMark == InitMark /\ [][NextMark]_vars

\* Parser::Parse(tokens), any token sequence
InitParse ==
    \E toks \in SeqsUpTo(ParseTokens, MaxParseLen) :
        Start("Parse", "Parse", <<>>, NumberedTokens(toks), NoTree)

NextParse ==
    \/ Parser_VisitNumber
    \/ Parser_VisitOperator
    \/ Parse_Return

SpecParse == InitParse /\ [][NextParse]_vars

\* Parser::Parse(tokens), the well-formed infix sequences
InitTree ==
    \E shape \in TreeShapes :
        Start("Parse", "Parse", <<>>, Infix(Numbered(shape, 1)), Numbered(shape, 1))

SpecTree == InitTree /\ [][NextParse]_vars

\* Evaluator::Evaluate(tokens)
InitEvaluate ==
    \E toks \in SeqsUpTo(EvalTokens, MaxEvalLen) :
        Start("Evaluate", "Evaluate", <<>>, toks, NoTree)

NextEvaluate ==
    \/ Evaluator_VisitNumber
    \/ Evaluator_VisitOperator
    \/ Evaluate_Return

SpecEvaluate == InitEvaluate /\ [][NextEvaluate]_vars

\* Evaluate(Parse(MarkUnaryOperators(tokens))), the well-formed infix
\* sequences with bare signs
InitComposed ==
    \E shape \in TreeShapes :
        /\ Len(Infix(shape)) <= MaxComposedLen
        /\ Start(Composition, "MarkUnaryOperators", <<>>,
                 BareSigns(Infix(Numbered(shape, 1))), Numbered(shape, 1))

NextComposed ==
    \/ Marker_VisitNumber
    \/ Marker_VisitOperator
    \/ MarkUnaryOperators_Return
    \/ Parser_VisitNumber
    \/ Parser_VisitOperator
    \/ Parse_Return
    \/ Evaluator_VisitNumber
    \/ Evaluator_VisitOperator
    \/ Evaluate_Return

SpecComposed == InitComposed /\ [][NextComposed]_vars

\* Any of the five public functions on a short input; a call that was made
\* runs on (no step is taken by anything else, so every enabled step is
\* eventually taken).
InitAny ==
    \/ \E text \in SeqsUpTo(TextChars, MaxLiveLen) :
          \/ Start("InterpreteExperssion", "Tokenize", text, <<>>, NoTree)
          \/ Start("Tokenize", "Tokenize", text, <<>>, NoTree)
    \/ \E toks \in SeqsUpTo(EvalTokens, MaxLiveLen) :
          \/ Start("MarkUnaryOperators", "MarkUnaryOperators", <<>>, toks, NoTree)
          \/ Start("Parse", "Parse", <<>>, toks, NoTree)
          \/ Start("Evaluate", "Evaluate", <<>>, toks, NoTree)

NextAny ==
    \/ Tokenizer_ScanNumber
    \/ Tokenizer_ScanOperator
    \/ Tokenizer_MoveNext
    \/ Tokenize_Return
    \/ Marker_VisitNumber
    \/ Marker_VisitOperator
    \/ MarkUnaryOperators_Return
    \/ Parser_VisitNumber
    \/ Parser_VisitOperator
    \/ Parse_Return
    \/ Evaluator_VisitNumber
    \/ Evaluator_VisitOperator
    \/ Evaluate_Return

FairSpec == InitAny /\ [][NextAny]_vars /\ WF_vars(NextAny)

-----------------------------------------------------------------------------
(* Properties.                                                             *)

Finished == pc \in {"done", "failed"}

\* What the call that ran left behind: its exception, or its return value.
Outcome == [error |-> error, value |-> result]

\* Evaluate(Parse(MarkUnaryOperators(Tokenize(text)))), an exception of
\* Parse leaving the composition before Evaluate runs.
FourStages(text) ==
    LET parsed == Parse(MarkUnaryOperators(Tokenize(text)))
    IN  IF parsed.error # NoError THEN [error |-> parsed.error, value |-> NoResult]
        ELSE Evaluate(parsed.value)

\* C1: for every text, InterpreteExperssion(text) has the outcome (the number
\* or the failure) of Evaluate(Parse(MarkUnaryOperators(Tokenize(text)))).
C1_InterpretIsFourStages ==
    (entry = "InterpreteExperssion" /\ Finished) => Outcome = FourStages(expr)

\* C2: for every well-formed unary-marked infix sequence, the output of Parse
\* is the postfix form of the tree the sequence denotes (parentheses first,
\* UMinus tighter than Mul/Div tighter than Plus/Minus, equal precedence
\* grouping left to right, UPlus the identity), and Parse does not fail.
C2_ParseDenotesTree ==
    ast # NoTree =>
        /\ pc # "failed"
        /\ pc = "done" => m_output = Postfix(ast)

\* A product was parsed whose left operand is a parenthesised sum and whose
\* right operand carries a unary minus, as in (1 + 2) * -3.
C2_Witness ==
    /\ ast # NoTree
    /\ pc = "done"
    /\ ast[1] = "Binary"
    /\ ast[2] \in {"Mul", "Div"}
    /\ ast[3][1] = "Paren"
    /\ ast[3][2][1] = "Binary"
    /\ ast[3][2][2] \in {"Plus", "Minus"}
    /\ ast[4][1] = "UMinus"
    /\ Len(m_output) = 6

\* What MarkUnaryOperators is to put at position i of its output.
IsSign(t) == IsOperatorToken(t) /\ t.m_operator \in {"Plus", "Minus"}
AfterOperatorButRParen(toks, i) ==
    i = 1 \/ (IsOperatorToken(toks[i - 1]) /\ toks[i - 1].m_operator # "RParen")
MarkedAt(toks, i) ==
    IF IsSign(toks[i]) /\ AfterOperatorButRParen(toks, i)
    THEN OperatorToken(IF toks[i].m_operator = "Plus" THEN "UPlus" ELSE "UMinus")
    ELSE toks[i]

\* C3: MarkUnaryOperators returns a sequence of the length of its input whose
\* position i holds UPlus / UMinus when the input holds Plus / Minus there
\* and i is the first position or follows an operator other than RParen,
\* and the input token otherwise.
C3_MarkPositions ==
    entry = "MarkUnaryOperators" =>
        /\ Len(marker_result) = idx - 1
        /\ \A i \in 1..Len(marker_result) : marker_result[i] = MarkedAt(tokens, i)
        /\ pc = "done" => Len(marker_result) = Len(tokens)

\* A sign was marked unary after an operator and another left binary after
\* a number or a right parenthesis.
C3_Witness ==
    /\ entry = "MarkUnaryOperators"
    /\ pc = "done"
    /\ \E i \in 2..Len(tokens) :
          /\ IsSign(tokens[i])
          /\ marker_result[i] # tokens[i]
    /\ \E j \in 2..Len(tokens) :
          /\ IsSign(tokens[j])
          /\ marker_result[j] = tokens[j]

\* The parentheses of a token sequence are correctly nested: no prefix
\* closes more than it opened, and the whole closes all it opened.
IsParen(t, which) == IsOperatorToken(t) /\ t.m_operator = which
RECURSIVE OpenAfter(_, _)
OpenAfter(toks, n) ==
    IF n = 0 THEN 0
    ELSE OpenAfter(toks, n - 1)
         + (IF IsParen(toks[n], "LParen") THEN 1
            ELSE IF IsParen(toks[n], "RParen") THEN -1 ELSE 0)
CorrectlyNested(toks) ==
    /\ \A n \in 1..Len(toks) : OpenAfter(toks, n) >= 0
    /\ OpenAfter(toks, Len(toks)) = 0

LParenOnStack == \E i \in 1..Len(m_stack) : IsParen(m_stack[i], "LParen")

\* C4: Parse fails on every sequence whose parentheses are not correctly
\* nested; an RParen processed with no LParen on the operator stack fails
\* with "opening paren not found", and an LParen left on the operator stack
\* when all tokens are consumed fails with "closing paren not found".
C4_UnbalancedFails ==
    [][/\ (pc = "Parse" /\ pc' = "done") => CorrectlyNested(tokens)
       /\ (pc = "Parse" /\ idx <= Len(tokens) /\ IsParen(tokens[idx], "RParen")
           /\ ~LParenOnStack)
          => (pc' = "failed" /\ error' = OpeningParenNotFound)
       /\ (pc = "Parse" /\ idx > Len(tokens) /\ LParenOnStack)
          => (pc' = "failed" /\ error' = ClosingParenNotFound)]_vars

\* The final pops failed on a left parenthesis that had an operator below
\* it and one above it (moved to the output before the failure).
C4_Witness ==
    /\ entry = "Parse"
    /\ pc = "failed"
    /\ error = ClosingParenNotFound
    /\ Len(m_stack) >= 2
    /\ IsParen(Back(m_stack), "LParen")
    /\ m_output # <<>>
    /\ IsOperatorToken(Back(m_output))
    /\ Back(m_output) = Back(tokens)

\* C5: Parse never fails on a sequence whose parentheses are correctly
\* nested, whatever its other tokens; the empty sequence gives the empty
\* output.
C5_BalancedNeverFails ==
    (entry = "Parse" /\ CorrectlyNested(tokens)) =>
        /\ pc # "failed"
        /\ (pc = "done" /\ tokens = <<>>) => m_output = <<>>

\* Parse returned for a sequence with parentheses and operators and no
\* operand at all.
C5_Witness ==
    /\ entry = "Parse"
    /\ pc = "done"
    /\ \A i \in 1..Len(tokens) : IsOperatorToken(tokens[i])
    /\ \E i \in 1..Len(tokens) : IsParen(tokens[i], "LParen")
    /\ \E i \in 1..Len(tokens) :
          IsOperatorToken(tokens[i]) /\ tokens[i].m_operator \in {"Plus", "Mul", "UMinus"}

BinaryOperators == {"Plus", "Minus", "Mul", "Div"}

IsBinary(t) == IsOperatorToken(t) /\ t.m_operator \in BinaryOperators
IsUMinus(t) == IsOperatorToken(t) /\ t.m_operator = "UMinus"

\* left op right, in doubles.
Applied(op, left, right) ==
    CASE op = "Plus" -> DAdd(left, right)
      [] op = "Minus" -> DSub(left, right)
      [] op = "Mul" -> DMul(left, right)
      [] op = "Div" -> DDiv(left, right)

\* C6: in Evaluate a binary operator met with at least two values replaces
\* the top two by left op right (left the deeper one), UMinus met with at
\* least one value replaces the top by its negation, a Number is pushed;
\* the values below are left as they were.
C6_EvaluateStep ==
    [][(pc = "Evaluate" /\ idx <= Len(tokens)) =>
          LET t == tokens[idx]
              n == Len(eval_stack)
          IN  /\ IsNumberToken(t) => eval_stack' = eval_stack \o <<t.m_number>>
              /\ (IsBinary(t) /\ n >= 2) =>
                    eval_stack' = SubSeq(eval_stack, 1, n - 2)
                                  \o <<Applied(t.m_operator, eval_stack[n - 1], eval_stack[n])>>
              /\ (IsUMinus(t) /\ n >= 1) =>
                    eval_stack' = SubSeq(eval_stack, 1, n - 1) \o <<DNeg(eval_stack[n])>>]_vars

\* 2 0 2 - was evaluated to the stack 2, -2.
C6_Witness ==
    /\ entry = "Evaluate"
    /\ Len(tokens) = 4
    /\ idx = 5
    /\ tokens[4] = OperatorToken("Minus")
    /\ eval_stack = <<Double(2), Double(-2)>>

OnlyArithmetic(toks) ==
    \A i \in 1..Len(toks) : IsNumberToken(toks[i]) \/ IsBinary(toks[i]) \/ IsUMinus(toks[i])

OperandsNeeded(t) == IF IsNumberToken(t) THEN 0 ELSE IF IsBinary(t) THEN 2 ELSE 1

\* C7: on a sequence of Numbers, Plus, Minus, Mul, Div and UMinus, Evaluate
\* fails, with "not enough operands", exactly when it reaches a binary
\* operator with fewer than two values on the stack or a UMinus with none;
\* a division by zero is not a failure.
C7_FailsIffTooFewOperands ==
    [][(pc = "Evaluate" /\ OnlyArithmetic(tokens)) =>
          /\ pc' = "failed" <=>
                (idx <= Len(tokens) /\ OperandsNeeded(tokens[idx]) > Len(eval_stack))
          /\ pc' = "failed" => error' = NotEnoughOperands
          /\ pc' # "failed" => error' = NoError]_vars

\* A number was divided by zero and the evaluation went on, the stack
\* holding an infinity.
C7_Witness ==
    /\ entry = "Evaluate"
    /\ OnlyArithmetic(tokens)
    /\ Len(tokens) >= 3
    /\ idx >= 4
    /\ IsNumberToken(tokens[2]) /\ IsZero(tokens[2].m_number)
    /\ tokens[3] = OperatorToken("Div")
    /\ error = NoError
    /\ eval_stack # <<>>
    /\ IsInf(eval_stack[1])

\* C8 as stated: when Evaluate completes without error the operand stack
\* holds exactly one value, the result, or it is empty and the result is 0.0.
C8_ExactlyOneValueLeft ==
    (entry = "Evaluate" /\ pc = "done") =>
        \/ eval_stack = <<>> /\ result = Double(0)
        \/ Len(eval_stack) = 1 /\ result = eval_stack[1]

\* C8, amended: when Evaluate completes without error its result is the
\* value on top of the operand stack, whatever lies below it, or 0.0 when
\* the stack is empty.
C8_ResultIsTopOfStack ==
    (entry = "Evaluate" /\ pc = "done") =>
        /\ error = NoError
        /\ eval_stack = <<>> => result = Double(0)
        /\ eval_stack # <<>> => result = eval_stack[Len(eval_stack)]

\* Evaluate returned with several values on the stack, the top one its result.
C8_Witness ==
    /\ entry = "Evaluate"
    /\ pc = "done"
    /\ Len(eval_stack) >= 2
    /\ eval_stack[1] # eval_stack[Len(eval_stack)]
    /\ result = eval_stack[Len(eval_stack)]
    /\ \E i \in 1..Len(tokens) : IsBinary(tokens[i])

\* C9: MarkUnaryOperators(MarkUnaryOperators(t)) = MarkUnaryOperators(t).
C9_MarkIdempotent ==
    (entry = "MarkUnaryOperators" /\ pc = "done") =>
        MarkUnaryOperators(marker_result) = marker_result

\* A sequence was marked in which a sign became unary, a sign stayed binary
\* and a unary operator was there from the start.
C9_Witness ==
    /\ entry = "MarkUnaryOperators"
    /\ pc = "done"
    /\ \E i \in 1..Len(tokens) : IsSign(tokens[i]) /\ marker_result[i] # tokens[i]
    /\ \E i \in 1..Len(tokens) : IsSign(marker_result[i])
    /\ \E i \in 1..Len(tokens) :
          IsOperatorToken(tokens[i]) /\ tokens[i].m_operator \in {"UPlus", "UMinus"}

\* The character an operator token stands for, "N" for a number.
CharOfToken(t) ==
    IF IsNumberToken(t) THEN "N"
    ELSE CASE t.m_operator = "Plus" -> "+"
           [] t.m_operator = "Minus" -> "-"
           [] t.m_operator = "Mul" -> "*"
           [] t.m_operator = "Div" -> "/"
           [] t.m_operator = "LParen" -> "("
           [] t.m_operator = "RParen" -> ")"
           [] OTHER -> "?"

CharsOfTokens(toks) == [i \in 1..Len(toks) |-> CharOfToken(toks[i])]

IsOperatorChar(c) == c \in OperatorChars
IsOperatorOrN(c) == c \in OperatorChars \cup {"N"}
IsN(c) == c = "N"

\* The text with every numeric literal that starts at a digit (its extent
\* the prefix wcstod converts) replaced by the one character "N".
RECURSIVE LiteralsAsN(_, _)
LiteralsAsN(text, p) ==
    IF p > Len(text) THEN <<>>
    ELSE IF IsDigitChar(text[p]) THEN <<"N">> \o LiteralsAsN(text, Wcstod(text, p).end)
    ELSE <<text[p]>> \o LiteralsAsN(text, p + 1)

-----------------------------------------------------------------------------
(* Precedence table.                                                       *)

IsOp(t, which) == IsOperatorToken(t) /\ t.m_operator = which

\* The precedence table of the specification.
SpecifiedPrecedence ==
    [UPlus |-> 2, UMinus |-> 2, Mul |-> 1, Div |-> 1, Plus |-> 0, Minus |-> 0]

\* C11: PrecedenceOf returns 2 for both UnaryPlus and UnaryMinus, 1 for Mul
\* and Div, and 0 for Plus and Minus (stated of every operator token given
\* to Parse).
C11_PrecedenceTable ==
    \A i \in 1..Len(tokens) :
        (IsOperatorToken(tokens[i]) /\ tokens[i].m_operator \in DOMAIN SpecifiedPrecedence)
            => PrecedenceOf(tokens[i]) = SpecifiedPrecedence[tokens[i].m_operator]

\* C15: PrecedenceOf(Mul) equals PrecedenceOf(Div), PrecedenceOf(Plus)
\* equals PrecedenceOf(Minus), PrecedenceOf(Mul) is strictly greater than
\* PrecedenceOf(Plus), and PrecedenceOf(UnaryMinus) is strictly greater than
\* PrecedenceOf(Mul) (stated of every two operator tokens given to Parse).
C15_PrecedenceOrder ==
    \A i, j \in 1..Len(tokens) :
        LET a == tokens[i]
            b == tokens[j]
        IN  /\ (IsOp(a, "Mul") /\ IsOp(b, "Div")) => PrecedenceOf(a) = PrecedenceOf(b)
            /\ (IsOp(a, "Plus") /\ IsOp(b, "Minus")) => PrecedenceOf(a) = PrecedenceOf(b)
            /\ (IsOp(a, "Mul") /\ IsOp(b, "Plus")) => PrecedenceOf(a) > PrecedenceOf(b)
            /\ (IsOp(a, "UMinus") /\ IsOp(b, "Mul")) => PrecedenceOf(a) > PrecedenceOf(b)

\* Parse compared the operators with one another: Mul popped the unary
\* minus, Div popped Mul and Plus popped Div.
C15_Witness ==
    /\ entry = "Parse"
    /\ pc = "done"
    /\ tokens = <<OperatorToken("UMinus"), OperatorToken("Mul"),
                  OperatorToken("Div"), OperatorToken("Plus")>>
    /\ m_output = tokens

-----------------------------------------------------------------------------
(* Parentheses and unary plus in Parse.                                    *)

NoneIs(toks, ops) ==
    \A i \in 1..Len(toks) : ~(IsOperatorToken(toks[i]) /\ toks[i].m_operator \in ops)

\* C12: for every token sequence on which Parse succeeds, the output
\* contains no LParen, no RParen and no UnaryPlus; UnaryPlus is never on the
\* operator stack and never in the output (at any moment of any run).
C12_NoParenNoUPlusInOutput ==
    /\ pc = "done" => NoneIs(m_output, {"LParen", "RParen", "UPlus"})
    /\ NoneIs(m_stack, {"UPlus"})
    /\ NoneIs(m_output, {"UPlus"})

\* Parse returned for a sequence with both parentheses and a unary plus,
\* and the output is not empty.
C12_Witness ==
    /\ entry = "Parse"
    /\ pc = "done"
    /\ ~NoneIs(tokens, {"LParen"})
    /\ ~NoneIs(tokens, {"RParen"})
    /\ ~NoneIs(tokens, {"UPlus"})
    /\ m_output # <<>>

\* C17: after every token, each binary operator on the operator stack is at
\* the bottom of the stack, directly above an LParen, or directly above an
\* operator of strictly lower precedence; the stack never contains RParen or
\* UnaryPlus.
C17_StackInvariant ==
    /\ \A i \in 1..Len(m_stack) :
          IsBinary(m_stack[i]) =>
              \/ i = 1
              \/ IsParen(m_stack[i - 1], "LParen")
              \/ /\ IsOperatorToken(m_stack[i - 1])
                 /\ PrecedenceOf(m_stack[i - 1]) < PrecedenceOf(m_stack[i])
    /\ NoneIs(m_stack, {"RParen", "UPlus"})

\* The stack holds a binary operator in each of the three places: Plus at
\* the bottom, Plus above a left parenthesis, Mul above Plus.
C17_Witness ==
    /\ entry = "Parse"
    /\ pc = "Parse"
    /\ Len(m_stack) = 4
    /\ IsOp(m_stack[1], "Plus")
    /\ IsOp(m_stack[2], "LParen")
    /\ IsOp(m_stack[3], "Plus")
    /\ IsOp(m_stack[4], "Mul")

CountOf(toks, ops) ==
    Cardinality({i \in 1..Len(toks) : IsOperatorToken(toks[i]) /\ toks[i].m_operator \in ops})

\* C18: for every token sequence on which Parse succeeds, the Number tokens
\* of the output are the Number tokens of the input in the same order, and
\* the output length is the input length minus the number of LParen, RParen
\* and UnaryPlus tokens of the input.
C18_OutputKeepsTokens ==
    (entry = "Parse" /\ pc = "done") =>
        /\ SelectSeq(m_output, IsNumberToken) = SelectSeq(tokens, IsNumberToken)
        /\ Len(m_output) = Len(tokens) - CountOf(tokens, {"LParen", "RParen", "UPlus"})

\* Parse returned for a sequence with two numbers, a dropped token and an
\* operator that reached the output.
C18_Witness ==
    /\ entry = "Parse"
    /\ pc = "done"
    /\ Len(SelectSeq(tokens, IsNumberToken)) >= 2
    /\ CountOf(tokens, {"LParen", "RParen", "UPlus"}) >= 1
    /\ \E i \in 1..Len(m_output) : IsOperatorToken(m_output[i])

-----------------------------------------------------------------------------
(* Operators the evaluator has no function for.                            *)

\* C13: when Evaluate reaches an operator token that is not in its function
\* table (UnaryPlus, LParen or RParen), the call fails at that token: no
\* token after it is processed and no value is returned.
C13_UnknownOperatorFails ==
    \A i \in 1..Len(tokens) :
        (/\ entry = "Evaluate"
         /\ i < idx
         /\ IsOperatorToken(tokens[i])
         /\ tokens[i].m_operator \in {"UPlus", "LParen", "RParen"})
        => /\ pc = "failed"
           /\ idx = i + 1
           /\ error = OutOfRange
           /\ result = NoResult

\* Evaluate failed on such an operator with values on the stack and tokens
\* left to process.
C13_Witness ==
    /\ entry = "Evaluate"
    /\ pc = "failed"
    /\ error = OutOfRange
    /\ eval_stack # <<>>
    /\ idx <= Len(tokens)

-----------------------------------------------------------------------------
(* Texts without tokens.                                                   *)

NoDigitNoOperator(text) ==
    \A i \in 1..Len(text) : ~IsDigitChar(text[i]) /\ text[i] \notin OperatorChars

\* C14: for every text with no digit and none of the six operator
\* characters, InterpreteExperssion returns 0.0 without error: Tokenize
\* yields the empty sequence, Parse yields the empty sequence from it, and
\* Evaluate yields 0.0.
C14_BlankTextIsZero ==
    (entry = "InterpreteExperssion" /\ NoDigitNoOperator(expr)) =>
        /\ pc # "failed"
        /\ error = NoError
        /\ tokenizer_result = <<>>
        /\ pc \in {"Parse", "Evaluate", "done"} => (tokens = <<>> /\ m_output = <<>>)
        /\ pc \in {"Evaluate", "done"} => eval_stack = <<>>
        /\ pc = "done" => result = Double(0)

\* InterpreteExperssion returned for a text of blanks and other characters.
C14_Witness ==
    /\ entry = "InterpreteExperssion"
    /\ pc = "done"
    /\ NoDigitNoOperator(expr)
    /\ Len(expr) = MaxExprLen
    /\ \E i \in 1..Len(expr) : expr[i] = " "
    /\ \E i \in 1..Len(expr) : expr[i] # " "

-----------------------------------------------------------------------------
(* Unary minus and its operand.                                            *)

IsOperandStart(t) ==
    IsNumberToken(t) \/ (IsOperatorToken(t) /\ t.m_operator \in {"LParen", "UMinus", "UPlus"})
IsOperandEnd(t) == IsNumberToken(t) \/ IsParen(t, "RParen")

\* Well-formed infix sequences with marked signs: numbers, binary operators
\* between operands, prefix signs, balanced parentheses around non-empty
\* sub-expressions.
WellFormed(toks) ==
    /\ toks # <<>>
    /\ IsOperandStart(toks[1])
    /\ IsOperandEnd(toks[Len(toks)])
    /\ \A i \in 1..(Len(toks) - 1) :
          IF IsOperandEnd(toks[i])
          THEN IsBinary(toks[i + 1]) \/ IsParen(toks[i + 1], "RParen")
          ELSE IsOperandStart(toks[i + 1])
    /\ CorrectlyNested(toks)

\* The parser after the first j tokens (none of which made it fail).
RECURSIVE ParserAfter(_, _)
ParserAfter(toks, j) ==
    IF j = 0 THEN NewParser ELSE ParserAccept(ParserAfter(toks, j - 1), toks[j])

\* The token that pushed the unary minus now at place k of the operator
\* stack: the last UMinus token after which the stack had k operators.
PushOf(k) ==
    CHOOSE j \in 1..(idx - 1) :
        /\ IsUMinus(tokens[j])
        /\ Len(ParserAfter(tokens, j).m_stack) = k
        /\ \A l \in (j + 1)..(idx - 1) :
              ~(IsUMinus(tokens[l]) /\ Len(ParserAfter(tokens, l).m_stack) = k)

\* This step pops a unary minus (from place k, after the operators above
\* it) while the output is no longer than it was when that unary minus was
\* pushed.
PopsUMinusBeforeOperand ==
    \E k \in Len(m_stack')..Len(m_stack) :
        /\ IsUMinus(m_stack[k])
        /\ Len(m_output) + (Len(m_stack) - k)
              <= Len(ParserAfter(tokens, PushOf(k)).m_output)

BinaryOperatorStep == pc = "Parse" /\ idx <= Len(tokens) /\ IsBinary(tokens[idx])

\* C16: during Parse of any token sequence, the pop loop run for a binary
\* operator never moves a UnaryMinus to the output before at least one token
\* has been appended to the output since that UnaryMinus was pushed.
C16_UMinusKeepsOperand ==
    [][BinaryOperatorStep => ~PopsUMinusBeforeOperand]_vars

\* C16 (amended): the same, during Parse of a well-formed infix sequence.
C16_UMinusKeepsOperandWhenWellFormed ==
    [][(BinaryOperatorStep /\ WellFormed(tokens)) => ~PopsUMinusBeforeOperand]_vars

\* A binary operator of a well-formed sequence has just popped a unary
\* minus, which follows its operand in the output.
C16_Witness ==
    /\ entry = "Parse"
    /\ pc = "Parse"
    /\ WellFormed(tokens)
    /\ idx >= 4
    /\ IsUMinus(tokens[idx - 3])
    /\ IsNumberToken(tokens[idx - 2])
    /\ IsBinary(tokens[idx - 1])
    /\ Len(m_output) >= 2
    /\ IsUMinus(Back(m_output))
    /\ IsNumberToken(m_output[Len(m_output) - 1])
    /\ Back(m_stack) = tokens[idx - 1]

-----------------------------------------------------------------------------
(* The three stages on well-formed input.                                  *)

\* C19: for every well-formed infix sequence t with bare Plus / Minus
\* signs, Evaluate(Parse(MarkUnaryOperators(t))) raises no error and
\* finishes with exactly one value on the operand stack.
C19_WellFormedGivesOneValue ==
    entry = Composition =>
        /\ pc # "failed"
        /\ error = NoError
        /\ pc = "done" => (Len(eval_stack) = 1 /\ result = eval_stack[1])

\* The composition returned for a sequence with both unary signs, a
\* parenthesis and a binary operator.
C19_Witness ==
    /\ entry = Composition
    /\ pc = "done"
    /\ ~NoneIs(marker_result, {"UMinus"})
    /\ ~NoneIs(marker_result, {"UPlus"})
    /\ ~NoneIs(marker_result, {"LParen"})
    /\ ~NoneIs(marker_result, BinaryOperators)
    /\ Len(eval_stack) = 1

-----------------------------------------------------------------------------
(* Termination.                                                            *)

\* C20: every stage terminates on every finite input: every call finishes
\* (returns or throws); each step of the Tokenize scan moves the scan
\* position forward and not past the end of the text, and each step that
\* MarkUnaryOperators, Parse (its pop loop included) and Evaluate take on a
\* token moves to the next token.
C20_EveryStageTerminates ==
    /\ <>Finished
    /\ [][/\ (pc = "Tokenize" /\ ~EndOfExperssion(expr, m_current))
             => (m_current' > m_current /\ m_current' <= Len(expr) + 1)
          /\ (pc \in {"MarkUnaryOperators", "Parse", "Evaluate"} /\ idx <= Len(tokens))
             => idx' = idx + 1]_vars

\* InterpreteExperssion finished after all of its stages ran: the scan
\* reached the end of the text, the final pops of the parser moved an
\* operator to the output, and the evaluator threw on it.
C20_Witness ==
    /\ entry = "InterpreteExperssion"
    /\ pc = "failed"
    /\ m_current = Len(expr) + 1
    /\ Len(m_output) = 2
    /\ IsBinary(Back(m_output))
    /\ idx = 3
    /\ error = NotEnoughOperands

=============================================================================
